---------------------------- MODULE Spec2Model ----------------------------
(***************************************************************************)
(* The WebTransport listener of go-libp2p (p2p/transport/webtransport):    *)
(* the raw-accept HTTP handler, the pending-session queue l.queue,         *)
(* Accept() with its handshake goroutines and per-call results channel,    *)
(* Close() and the serving goroutine.                                      *)
(*                                                                         *)
(* Go channels are modelled as the runtime implements them: a FIFO buffer  *)
(* of fixed capacity, a FIFO of senders blocked on a full buffer, and a    *)
(* receiver parked in a select that the first event making one of its      *)
(* cases ready wakes up with that case chosen.                             *)
(***************************************************************************)
EXTENDS Naturals, Sequences, FiniteSets

\* const queueLen = 16
queueLen == 16

\* Sessions that arrive under the "varied" load, where remote peers and
\* goroutines interleave freely.
MaxSessions == 2

\* Sessions beyond the queue capacity that arrive under the "flood" load.
Extra == 1

\* Calls of Accept() the accept loop makes.
MaxCalls == 2

\* Certificate rotations of the certificate manager.
MaxRotations == 2

\* Certificate-hash components a dialled address carries.
MaxHashes == 2

\* Components of an arbitrary address put to CanDial and Listen, before its
\* certhash suffix.
MaxComponents == 4

\* Components of an address put to extractCertHashes.
MaxExtract == 3

FloodSessions == queueLen + Extra
MaxId == IF FloodSessions > MaxSessions THEN FloodSessions ELSE MaxSessions
Sessions == 1..MaxId
Calls == 1..MaxCalls

\* var errClosed = errors.New("closed")
errClosed == "closed"

\* What Accept() returns: (conn, nil) or (nil, errClosed); conn 0 is nil.
RetConn(s) == [conn |-> s, err |-> "nil"]
RetErr(e) == [conn |-> 0, err |-> e]
NoRet == [conn |-> 0, err |-> "none"]

VARIABLES
    load,         \* what the remote side does: "varied" or "flood"
    nSess,        \* raw sessions upgraded so far: sessions 1..nSess exist
    sess,         \* sess[s]: "none", "failed" (the upgrade failed), "open", "closed" (c.Close() was called)
    returned,     \* the requests whose handler has returned
    lqueue,       \* l.queue: the buffered sessions, oldest first
    lblocked,     \* handlers blocked in `ln.queue <- c`, oldest first
    task,         \* task[s]: the handshake goroutine of s: "none", "hs", "blocked", "done"
    taskCall,     \* taskCall[s]: the Accept() call that launched it (0: none)
    peer,         \* peer[s]: what the handshake of s established: "none", "good", "denied", "gated"
    results,      \* results[k]: the local `queue` of Accept() call k (its buffer)
    rblocked,     \* rblocked[k]: goroutines blocked in `queue <- conn` of call k
    acceptPc,     \* "idle", "top", "select", "parked", "woken"
    wake,         \* the select case a parked Accept() was woken with
    call,         \* number of Accept() calls started
    acceptRet,    \* what the last Accept() call returned
    accepted,     \* the sessions Accept() has returned as connections
    afterCancel,  \* the current/last Accept() call began with l.ctx already cancelled
    parkedAtClose,\* the Accept() call that was parked when Close() cancelled l.ctx (0: none)
    ctxDone,      \* l.ctx is cancelled
    serverUp,     \* l.server has not been closed
    servePc,      \* the serving goroutine: "serving", "returned"
    udpOpen,      \* udpConn is open
    serverClosed, \* the channel l.serverClosed is closed
    closePc,      \* Close(): "idle", "cancelled", "waiting", "done"
    closeErr,     \* the error l.server.Close() returned
    closeRet,     \* what Close() returned
    staticTLS,    \* the transport was built WithTLSConfig (no certificate manager rotation)
    clientTrust,  \* the dialer's trust store (WithTLSClientConfig) holds the server's certificate
    gen,          \* rotations so far: the manager holds certificates gen (current) and gen + 1 (next)
    lmultiaddr,   \* lmultiaddr[l]: l.multiaddr of listener l (<<>>: not listening)
    dialRes,      \* the last Dial: the address, what was embedded, what the server presented, the outcome
    now,          \* the time, in rotation periods
    seen,         \* the last read of a listener's Multiaddr(): the address and the time
    probe         \* an address put to CanDial, Listen or extractCertHashes, and the answer

vars == <<load, nSess, sess, returned, lqueue, lblocked, task, taskCall, peer, results,
          rblocked, acceptPc, wake, call, acceptRet, accepted, afterCancel,
          parkedAtClose,
          ctxDone, serverUp, servePc, udpOpen, serverClosed, closePc, closeErr,
          closeRet, staticTLS, clientTrust, gen, lmultiaddr, dialRes, now, seen, probe>>

sessVars == <<nSess, sess, returned, lqueue, lblocked>>
taskVars == <<task, taskCall, peer, results, rblocked>>
acceptVars == <<acceptPc, wake, call, acceptRet, accepted, afterCancel>>
closeVars == <<ctxDone, serverUp, servePc, udpOpen, serverClosed, closePc,
               closeErr, closeRet>>
addrVars == <<staticTLS, clientTrust, gen, lmultiaddr, dialRes, now, seen, probe>>
pipelineVars == <<load, sessVars, taskVars, acceptVars, parkedAtClose, closeVars>>

Listeners == 1..2

\* What the dialer's collaborators answer to one Dial: the resource manager
\* ("ok", or the call that fails: "open" for OpenConnection, "setpeer" for
\* SetPeer), the identity handshake against the expected peer, the
\* connection gater.
DialPolicies == [rcmgr : {"ok", "open", "setpeer"}, peer : {"match", "mismatch"},
                 gater : {"allow", "reject"}]

\* network.NullResourceManager, the expected peer, no connection gater.
NullPolicy == [rcmgr |-> "ok", peer |-> "match", gater |-> "allow"]

NoDial == [dialed |-> FALSE, ln |-> 0, addr |-> <<>>, secured |-> <<>>,
           want |-> <<>>, presented |-> {},
           err |-> "none", conn |-> FALSE, pol |-> NullPolicy, trace |-> <<>>]

NoSeen == [read |-> FALSE, addr |-> <<>>, at |-> 0]
NoExtract == [err |-> "none", hashes |-> <<>>]
NoProbe == [op |-> "none", addr |-> <<>>, ok |-> FALSE, res |-> NoExtract]

NoWake == [case |-> "none", s |-> 0]

\* The sessions a load lets arrive.
Limit == IF load = "flood" THEN FloodSessions ELSE MaxSessions

\* Under the flood load the remote peers are well-behaved clients: the
\* application starts accepting once all of them have connected, and each
\* answers its handshake before Accept() takes the next session.
AllArrived == load = "flood" => nSess = Limit

Answered == load = "flood" => \A t \in Sessions : task[t] # "hs"

\* The listener as newListener leaves it, under load ld.
InitPipeline(ld) ==
    /\ load = ld
    /\ nSess = 0
    /\ sess = [s \in Sessions |-> "none"]
    /\ returned = {}
    /\ lqueue = <<>>
    /\ lblocked = <<>>
    /\ task = [s \in Sessions |-> "none"]
    /\ taskCall = [s \in Sessions |-> 0]
    /\ peer = [s \in Sessions |-> "none"]
    /\ results = [k \in Calls |-> <<>>]
    /\ rblocked = [k \in Calls |-> <<>>]
    /\ acceptPc = "idle"
    /\ wake = NoWake
    /\ call = 0
    /\ acceptRet = NoRet
    /\ accepted = {}
    /\ afterCancel = FALSE
    /\ parkedAtClose = 0
    /\ ctxDone = FALSE
    /\ serverUp = TRUE
    /\ servePc = "serving"
    /\ udpOpen = TRUE
    /\ serverClosed = FALSE
    /\ closePc = "idle"
    /\ closeErr = "none"
    /\ closeRet = "none"

\* A new transport: the certificate manager holds its first two
\* certificates, nothing listens, nothing was dialled or read.
InitCert(static, trust) ==
    /\ staticTLS = static
    /\ clientTrust = trust
    /\ gen = 0
    /\ now = 0
    /\ lmultiaddr = [l \in Listeners |-> <<>>]
    /\ dialRes = NoDial
    /\ seen = NoSeen

InitAddr(static, trust) ==
    /\ InitCert(static, trust)
    /\ probe = NoProbe

Init ==
    /\ \E ld \in {"varied", "flood"} : InitPipeline(ld)
    /\ InitAddr(FALSE, FALSE)

-----------------------------------------------------------------------------
(* The raw-accept callback: mux.HandleFunc(webtransportHTTPEndpoint, ...)    *)

\* `ln.queue <- c` into a queue that grows instead of making the sender wait.
SendToQueueUnbounded(s) ==
    IF acceptPc = "parked"
    THEN /\ acceptPc' = "woken"
         /\ wake' = [case |-> "pop", s |-> s]
         /\ UNCHANGED <<lqueue, lblocked>>
    ELSE /\ lqueue' = Append(lqueue, s)
         /\ UNCHANGED <<lblocked, acceptPc, wake>>

\* `ln.queue <- c` executed by the handler of session s.
SendToQueue(s) ==
    IF acceptPc = "parked"
    THEN \* a receiver waits in the select: the session is handed to it
         /\ acceptPc' = "woken"
         /\ wake' = [case |-> "pop", s |-> s]
         /\ UNCHANGED <<lqueue, lblocked>>
    ELSE IF Len(lqueue) < queueLen
    THEN /\ lqueue' = Append(lqueue, s)
         /\ UNCHANGED <<lblocked, acceptPc, wake>>
    ELSE \* the buffer is full: the handler blocks in the send
         /\ lblocked' = Append(lblocked, s)
         /\ UNCHANGED <<lqueue, acceptPc, wake>>

\* ln.server.Upgrade succeeds for a new session and the handler sends it to
\* ln.queue.
Upgrade ==
    /\ serverUp
    /\ servePc = "serving"
    /\ nSess < Limit
    /\ LET s == nSess + 1 IN
        /\ nSess' = s
        /\ sess' = [sess EXCEPT ![s] = "open"]
        /\ SendToQueue(s)
    /\ UNCHANGED <<load, returned, call, acceptRet, accepted, afterCancel, parkedAtClose>>
    /\ UNCHANGED taskVars
    /\ UNCHANGED closeVars
    /\ UNCHANGED addrVars

\* ln.server.Upgrade fails for a request: the handler answers 500 and
\* returns; no session exists. Flooding clients are well-behaved.
UpgradeFail ==
    /\ serverUp
    /\ servePc = "serving"
    /\ load = "varied"
    /\ nSess < Limit
    /\ LET s == nSess + 1 IN
        /\ nSess' = s
        /\ sess' = [sess EXCEPT ![s] = "failed"]
        /\ returned' = returned \cup {s}
    /\ UNCHANGED <<load, lqueue, lblocked, parkedAtClose>>
    /\ UNCHANGED taskVars
    /\ UNCHANGED acceptVars
    /\ UNCHANGED closeVars
    /\ UNCHANGED addrVars

\* The handlers blocked in the send to l.queue.
Blocked == {lblocked[i] : i \in 1..Len(lblocked)}

\* A handler that does not wait for the session's context.
HandlerReturnEarly(s) ==
    /\ sess[s] \in {"open", "closed"}
    /\ s \notin Blocked
    /\ s \notin returned
    /\ returned' = returned \cup {s}
    /\ UNCHANGED <<load, nSess, sess, lqueue, lblocked, parkedAtClose>>
    /\ UNCHANGED taskVars
    /\ UNCHANGED acceptVars
    /\ UNCHANGED closeVars
    /\ UNCHANGED addrVars

\* <-c.Context().Done() in the handler of session s, after its send to
\* l.queue completed: the context is done once the session is closed, and the
\* handler returns.
HandlerReturn(s) ==
    /\ sess[s] = "closed"
    /\ s \notin Blocked
    /\ s \notin returned
    /\ returned' = returned \cup {s}
    /\ UNCHANGED <<load, nSess, sess, lqueue, lblocked, parkedAtClose>>
    /\ UNCHANGED taskVars
    /\ UNCHANGED acceptVars
    /\ UNCHANGED closeVars
    /\ UNCHANGED addrVars

\* A receive from l.queue: the oldest buffered session leaves and the oldest
\* blocked handler's send completes.
QueueAfterRecv ==
    IF lblocked = <<>> THEN Tail(lqueue)
    ELSE Append(Tail(lqueue), Head(lblocked))

BlockedAfterRecv == IF lblocked = <<>> THEN <<>> ELSE Tail(lblocked)

-----------------------------------------------------------------------------
(* Accept()                                                                *)

\* go func(c *webtransport.Conn) { ... }(c)
Launch(s) ==
    /\ task' = [task EXCEPT ![s] = "hs"]
    /\ taskCall' = [taskCall EXCEPT ![s] = call]

\* return conn, nil  /  return nil, errClosed
Return(v) ==
    /\ acceptPc' = "idle"
    /\ acceptRet' = v
    /\ accepted' = IF v.conn = 0 THEN accepted ELSE accepted \cup {v.conn}
    /\ wake' = NoWake

\* A receive from the call's results channel `queue`.
ResultsAfterRecv(k) ==
    IF rblocked[k] = <<>> THEN Tail(results[k])
    ELSE Append(Tail(results[k]), Head(rblocked[k]))

\* The caller enters Accept(): queue := make(chan tpt.CapableConn, queueLen).
AcceptCall ==
    /\ acceptPc = "idle"
    /\ call < MaxCalls
    /\ AllArrived
    /\ call' = call + 1
    /\ acceptPc' = "top"
    /\ acceptRet' = NoRet
    /\ afterCancel' = ctxDone
    /\ UNCHANGED <<load, wake, accepted, parkedAtClose>>
    /\ UNCHANGED sessVars
    /\ UNCHANGED taskVars
    /\ UNCHANGED closeVars
    /\ UNCHANGED addrVars

\* Accept() without the non-blocking check of l.ctx at the head of its loop.
AcceptCheckCtxSkipped ==
    /\ acceptPc = "top"
    /\ acceptPc' = "select"
    /\ UNCHANGED <<load, wake, call, acceptRet, accepted, afterCancel, parkedAtClose>>
    /\ UNCHANGED sessVars
    /\ UNCHANGED taskVars
    /\ UNCHANGED closeVars
    /\ UNCHANGED addrVars

\* The head of the loop: select { case <-l.ctx.Done(): return nil, errClosed; default: }
AcceptCheckCtx ==
    /\ acceptPc = "top"
    /\ IF ctxDone
       THEN Return(RetErr(errClosed))
       ELSE /\ acceptPc' = "select"
            /\ UNCHANGED <<acceptRet, accepted, wake>>
    /\ UNCHANGED <<load, call, afterCancel, parkedAtClose>>
    /\ UNCHANGED sessVars
    /\ UNCHANGED taskVars
    /\ UNCHANGED closeVars
    /\ UNCHANGED addrVars

\* An Accept() that takes the next session only when no handshake is in
\* flight.
AcceptPopSerial ==
    /\ acceptPc = "select"
    /\ lqueue # <<>>
    /\ \A t \in Sessions : task[t] # "hs"
    /\ Launch(Head(lqueue))
    /\ lqueue' = QueueAfterRecv
    /\ lblocked' = BlockedAfterRecv
    /\ acceptPc' = "top"
    /\ UNCHANGED <<load, nSess, sess, returned, peer, results, rblocked, wake, call,
                   acceptRet, accepted, afterCancel, parkedAtClose>>
    /\ UNCHANGED closeVars
    /\ UNCHANGED addrVars

\* The select finds `c = <-l.queue` ready and takes it.
AcceptPop ==
    /\ acceptPc = "select"
    /\ lqueue # <<>>
    /\ Answered
    /\ Launch(Head(lqueue))
    /\ lqueue' = QueueAfterRecv
    /\ lblocked' = BlockedAfterRecv
    /\ acceptPc' = "top"
    /\ UNCHANGED <<load, nSess, sess, returned, peer, results, rblocked, wake, call,
                   acceptRet, accepted, afterCancel, parkedAtClose>>
    /\ UNCHANGED closeVars
    /\ UNCHANGED addrVars

\* The select finds `conn := <-queue` ready and takes it.
AcceptRecv ==
    /\ acceptPc = "select"
    /\ results[call] # <<>>
    /\ Return(RetConn(Head(results[call])))
    /\ results' = [results EXCEPT ![call] = ResultsAfterRecv(call)]
    /\ rblocked' = [rblocked EXCEPT ![call] =
                        IF rblocked[call] = <<>> THEN <<>> ELSE Tail(rblocked[call])]
    /\ task' = [s \in Sessions |->
                    IF rblocked[call] # <<>> /\ s = Head(rblocked[call])
                    THEN "done" ELSE task[s]]
    /\ UNCHANGED <<load, taskCall, peer, call, afterCancel, parkedAtClose>>
    /\ UNCHANGED sessVars
    /\ UNCHANGED closeVars
    /\ UNCHANGED addrVars

\* The select finds `<-l.ctx.Done()` ready and takes it.
AcceptCtxDone ==
    /\ acceptPc = "select"
    /\ ctxDone
    /\ Return(RetErr(errClosed))
    /\ UNCHANGED <<load, call, afterCancel, parkedAtClose>>
    /\ UNCHANGED sessVars
    /\ UNCHANGED taskVars
    /\ UNCHANGED closeVars
    /\ UNCHANGED addrVars

\* No case of the select is ready: the goroutine parks.
AcceptPark ==
    /\ acceptPc = "select"
    /\ lqueue = <<>>
    /\ results[call] = <<>>
    /\ ~ctxDone
    /\ acceptPc' = "parked"
    /\ UNCHANGED <<load, wake, call, acceptRet, accepted, afterCancel, parkedAtClose>>
    /\ UNCHANGED sessVars
    /\ UNCHANGED taskVars
    /\ UNCHANGED closeVars
    /\ UNCHANGED addrVars

\* The woken goroutine runs the case it was woken with.
AcceptWake ==
    /\ acceptPc = "woken"
    /\ \/ /\ wake.case = "pop"
          /\ Launch(wake.s)
          /\ acceptPc' = "top"
          /\ wake' = NoWake
          /\ UNCHANGED <<acceptRet, accepted, peer, results, rblocked>>
       \/ /\ wake.case = "res"
          /\ Return(RetConn(wake.s))
          /\ UNCHANGED taskVars
       \/ /\ wake.case = "ctx"
          /\ Return(RetErr(errClosed))
          /\ UNCHANGED taskVars
    /\ UNCHANGED <<load, call, afterCancel, parkedAtClose>>
    /\ UNCHANGED sessVars
    /\ UNCHANGED closeVars
    /\ UNCHANGED addrVars

-----------------------------------------------------------------------------
(* The handshake goroutine launched by Accept()                            *)

\* `queue <- conn` executed by the goroutine of session s, launched by call k.
SendToResults(s, k) ==
    IF acceptPc = "parked" /\ call = k
    THEN /\ acceptPc' = "woken"
         /\ wake' = [case |-> "res", s |-> s]
         /\ task' = [task EXCEPT ![s] = "done"]
         /\ UNCHANGED <<results, rblocked>>
    ELSE IF Len(results[k]) < queueLen
    THEN /\ results' = [results EXCEPT ![k] = Append(@, s)]
         /\ task' = [task EXCEPT ![s] = "done"]
         /\ UNCHANGED <<rblocked, acceptPc, wake>>
    ELSE /\ rblocked' = [rblocked EXCEPT ![k] = Append(@, s)]
         /\ task' = [task EXCEPT ![s] = "blocked"]
         /\ UNCHANGED <<results, acceptPc, wake>>

\* What the remote peer of a session can turn out to be once the identity
\* handshake completed: "denied" is refused by the resource manager,
\* "gated" by the connection gater.
Verdicts == IF load = "flood" THEN {"good"} ELSE {"good", "denied", "gated"}

\* l.handshake(ctx, c): AcceptStream, SecureInbound and newConn succeed. A
\* cancelled ctx does not exclude it: a select that finds both the stream (or
\* the handshake result) and ctx.Done() ready takes either.
handshake(s, v) == peer' = [peer EXCEPT ![s] = v]

\* conn, err := l.handshake(ctx, c) with err == nil; queue <- conn
HandshakeOk(s) ==
    /\ task[s] = "hs"
    /\ \E v \in Verdicts : handshake(s, v)
    /\ SendToResults(s, taskCall[s])
    /\ UNCHANGED <<load, taskCall, call, acceptRet, accepted, afterCancel,
                   parkedAtClose>>
    /\ UNCHANGED sessVars
    /\ UNCHANGED closeVars
    /\ UNCHANGED addrVars

\* The error path without c.Close().
closeOnErrorLeak(s) == UNCHANGED sess

\* On a handshake error: log.Debugw(...); c.Close(); return
closeOnError(s) == sess' = [sess EXCEPT ![s] = "closed"]

\* l.handshake fails: the remote peer fails it, the handshakeTimeout deadline
\* of ctx passes, or l.ctx is cancelled.
HandshakeFail(s) ==
    /\ task[s] = "hs"
    /\ load = "flood" => ctxDone
    /\ closeOnError(s)
    /\ task' = [task EXCEPT ![s] = "done"]
    /\ UNCHANGED <<load, nSess, returned, lqueue, lblocked, taskCall, peer, results,
                   rblocked, parkedAtClose>>
    /\ UNCHANGED acceptVars
    /\ UNCHANGED closeVars
    /\ UNCHANGED addrVars

\* A goroutine that hands l.ctx itself to l.handshake: its ctx is done only
\* when the listener is closed.
handshakeCtxNoTimeout(s) == ctxDone

\* ctx, cancel := context.WithTimeout(l.ctx, handshakeTimeout): the ctx of the
\* goroutine of s is done when its own timer, started at the launch, expires
\* or when l.ctx is cancelled. The timer waits for nothing but time.
handshakeCtx(s) == task[s] = "hs" \/ ctxDone

\* The ctx of the goroutine of s is done while its remote peer has not opened
\* a stream or not answered the identity handshake: c.AcceptStream(ctx) or
\* l.noise.SecureInbound(ctx, ...) returns the error of ctx, l.handshake
\* returns it, and the goroutine closes the session and ends.
HandshakeTimeout(s) ==
    /\ task[s] = "hs"
    /\ handshakeCtx(s)
    /\ load = "flood" => ctxDone
    /\ closeOnError(s)
    /\ task' = [task EXCEPT ![s] = "done"]
    /\ UNCHANGED <<load, nSess, returned, lqueue, lblocked, taskCall, peer, results,
                   rblocked, parkedAtClose>>
    /\ UNCHANGED acceptVars
    /\ UNCHANGED closeVars
    /\ UNCHANGED addrVars

-----------------------------------------------------------------------------
(* Close() and the serving goroutine                                       *)

\* Close() when the select of Accept() has no `case <-l.ctx.Done()`: the
\* cancellation wakes nobody.
CloseCancelNoWake ==
    /\ closePc = "idle"
    /\ closePc' = "cancelled"
    /\ ctxDone' = TRUE
    /\ parkedAtClose' = IF acceptPc = "parked" THEN call ELSE parkedAtClose
    /\ UNCHANGED <<load, serverUp, servePc, udpOpen, serverClosed, closeErr, closeRet>>
    /\ UNCHANGED acceptVars
    /\ UNCHANGED sessVars
    /\ UNCHANGED taskVars
    /\ UNCHANGED addrVars

\* l.ctxCancel()
CloseCancel ==
    /\ closePc = "idle"
    /\ closePc' = "cancelled"
    /\ ctxDone' = TRUE
    /\ IF acceptPc = "parked"
       THEN /\ acceptPc' = "woken"
            /\ wake' = [case |-> "ctx", s |-> 0]
            /\ parkedAtClose' = call
       ELSE UNCHANGED <<acceptPc, wake, parkedAtClose>>
    /\ UNCHANGED <<load, call, acceptRet, accepted, afterCancel, serverUp, servePc,
                   udpOpen, serverClosed, closeErr, closeRet>>
    /\ UNCHANGED sessVars
    /\ UNCHANGED taskVars
    /\ UNCHANGED addrVars

\* err := l.server.Close()
CloseServer ==
    /\ closePc = "cancelled"
    /\ closePc' = "waiting"
    /\ serverUp' = FALSE
    /\ closeErr' \in {"nil", "err"}
    /\ UNCHANGED <<load, parkedAtClose, ctxDone, servePc, udpOpen, serverClosed,
                   closeRet>>
    /\ UNCHANGED sessVars
    /\ UNCHANGED taskVars
    /\ UNCHANGED acceptVars
    /\ UNCHANGED addrVars

\* Close() without `<-l.serverClosed`.
CloseWaitNoWait ==
    /\ closePc = "waiting"
    /\ closePc' = "done"
    /\ closeRet' = closeErr
    /\ UNCHANGED <<load, parkedAtClose, ctxDone, serverUp, servePc, udpOpen,
                   serverClosed, closeErr>>
    /\ UNCHANGED sessVars
    /\ UNCHANGED taskVars
    /\ UNCHANGED acceptVars
    /\ UNCHANGED addrVars

\* <-l.serverClosed; return err
CloseWait ==
    /\ closePc = "waiting"
    /\ serverClosed
    /\ closePc' = "done"
    /\ closeRet' = closeErr
    /\ UNCHANGED <<load, parkedAtClose, ctxDone, serverUp, servePc, udpOpen,
                   serverClosed, closeErr>>
    /\ UNCHANGED sessVars
    /\ UNCHANGED taskVars
    /\ UNCHANGED acceptVars
    /\ UNCHANGED addrVars

\* ln.server.Serve(udpConn) returns, because the server was closed or because
\* serving failed; the deferred udpConn.Close() and close(ln.serverClosed) run.
ServeReturn ==
    /\ servePc = "serving"
    /\ servePc' = "returned"
    /\ udpOpen' = FALSE
    /\ serverClosed' = TRUE
    /\ UNCHANGED <<load, parkedAtClose, ctxDone, serverUp, closePc, closeErr,
                   closeRet>>
    /\ UNCHANGED sessVars
    /\ UNCHANGED taskVars
    /\ UNCHANGED acceptVars
    /\ UNCHANGED addrVars

-----------------------------------------------------------------------------
(* Multiaddrs, certificate hashes (multiaddr.go)                           *)
(*                                                                         *)
(* A multiaddr is a sequence of components [p, v]; every value is a        *)
(* sequence of numbers (bytes or code points). multibase text is modelled  *)
(* with the real prefixes and alphabets, one character per byte.           *)

Comp(p, v) == [p |-> p, v |-> v]

\* a.Encapsulate(b)
Encapsulate(a, b) == a \o b

\* var webtransportMA = ma.StringCast("/quic/webtransport")
webtransportMA == <<Comp("quic", <<>>), Comp("webtransport", <<>>)>>

\* multihash.SHA2_256 (0x12), multihash.KECCAK_224 (0x1A)
SHA2_256 == 18
KECCAK_224 == 26

\* multibase.Base58BTC ('z'), multibase.Base32hex ('v')
Base58BTC == 122
Base32hex == 118

\* The code points of the base58btc alphabet: 1-9, A-H, J-N, P-Z, a-k, m-z.
Base58Alphabet ==
    [i \in 1..9 |-> 48 + i] \o [i \in 1..8 |-> 64 + i] \o [i \in 1..5 |-> 73 + i]
    \o [i \in 1..11 |-> 79 + i] \o [i \in 1..11 |-> 96 + i]
    \o [i \in 1..14 |-> 108 + i]

\* The code points of the base32hex alphabet: 0-9, a-v.
Base32hexAlphabet == [i \in 1..10 |-> 47 + i] \o [i \in 1..22 |-> 96 + i]

Alphabet(base) == IF base = Base58BTC THEN Base58Alphabet ELSE Base32hexAlphabet

\* The decoding tables: the position in the alphabet of every code point, 0
\* for a code point outside the alphabet.
Base58Index ==
    [i \in 1..48 |-> 0] \o [i \in 1..9 |-> i] \o [i \in 1..7 |-> 0]
    \o [i \in 1..8 |-> 9 + i] \o <<0>> \o [i \in 1..5 |-> 17 + i] \o <<0>>
    \o [i \in 1..11 |-> 22 + i] \o [i \in 1..6 |-> 0] \o [i \in 1..11 |-> 33 + i]
    \o <<0>> \o [i \in 1..14 |-> 44 + i]

Base32hexIndex ==
    [i \in 1..47 |-> 0] \o [i \in 1..10 |-> i] \o [i \in 1..39 |-> 0]
    \o [i \in 1..22 |-> 10 + i]

IndexIn(base, c) ==
    LET tab == IF base = Base58BTC THEN Base58Index ELSE Base32hexIndex
    IN IF c \in 1..Len(tab) THEN tab[c] ELSE 0

\* multibase.Encode(base, data)
multibaseEncode(base, data) ==
    <<base>> \o [i \in 1..Len(data) |-> Alphabet(base)[data[i] + 1]]

\* multibase.Decode(str): the data, or an error for an empty string, an
\* unknown prefix or a character outside the alphabet.
multibaseDecode(str) ==
    IF Len(str) = 0 \/ str[1] \notin {Base58BTC, Base32hex}
    THEN [err |-> "multibase", data |-> <<>>]
    ELSE LET body == Tail(str)
             pos == [i \in 1..Len(body) |-> IndexIn(str[1], body[i])] \o <<>>
         IN IF \E i \in 1..Len(pos) : pos[i] = 0
            THEN [err |-> "multibase", data |-> <<>>]
            ELSE [err |-> "nil", data |-> [i \in 1..Len(pos) |-> pos[i] - 1] \o <<>>]

\* multihash.Encode(digest, code): code, length, digest.
multihashEncode(digest, code) == <<code, Len(digest)>> \o digest

NoHash == [code |-> 0, length |-> 0, digest |-> <<>>]

\* multihash.Decode(buf): the DecodedMultihash, or an error for a buffer that
\* is too short or whose length field disagrees with the digest.
multihashDecode(buf) ==
    IF Len(buf) < 2 \/ Len(buf) - 2 # buf[2]
    THEN [err |-> "multihash", mh |-> NoHash]
    ELSE [err |-> "nil",
          mh |-> [code |-> buf[1], length |-> buf[2],
                  digest |-> SubSeq(buf, 3, Len(buf))]]

\* manet.FromNetAddr(na) for na = [net, ip, port]
FromNetAddr(na) == <<Comp("ip4", na.ip), Comp(na.net, <<na.port>>)>>

\* addr.ValueForProtocol(p) succeeds
HasProtocol(addr, p) == \E i \in 1..Len(addr) : addr[i].p = p

\* func toWebtransportMultiaddr(na net.Addr) (ma.Multiaddr, error)
toWebtransportMultiaddr(na) ==
    IF ~HasProtocol(FromNetAddr(na), "udp")
    THEN [err |-> "not a UDP address", addr |-> <<>>]
    ELSE [err |-> "nil", addr |-> Encapsulate(FromNetAddr(na), webtransportMA)]

IsCertHash(c) == c.p = "certhash"

\* A matcher that accepts an address once its first components match,
\* whatever follows.
webtransportMatcherPrefix(addr) ==
    /\ Len(addr) >= 4
    /\ addr[1].p \in {"ip4", "ip6"}
    /\ addr[2].p = "udp"
    /\ addr[3].p = "quic"
    /\ addr[4].p = "webtransport"

\* var webtransportMatcher = mafmt.And(mafmt.IP, mafmt.Base(ma.P_UDP),
\*     mafmt.Base(ma.P_QUIC), mafmt.Base(ma.P_WEBTRANSPORT))
\* webtransportMatcher.Matches(addr): the patterns consume the components in
\* order and nothing may remain.
webtransportMatcher(addr) ==
    /\ Len(addr) = 4
    /\ addr[1].p \in {"ip4", "ip6"}
    /\ addr[2].p = "udp"
    /\ addr[3].p = "quic"
    /\ addr[4].p = "webtransport"

\* transport.CanDial(addr): the address without as many trailing components
\* as it has certhash components must match.
CanDial(addr) ==
    LET numHashes == Len(SelectSeq(addr, IsCertHash))
    IN webtransportMatcher(SubSeq(addr, 1, Len(addr) - numHashes))

\* The address check of transport.Listen(laddr).
listenCheck(laddr) ==
    IF webtransportMatcher(laddr) THEN "nil" ELSE "cannot listen on non-WebTransport addr"

\* extractCertHashes that forgets to collect the certhash components.
extractCertHashesNone(addr) == [err |-> "nil", hashes |-> <<>>]

\* The second half of extractCertHashes: multibase.Decode and
\* multihash.Decode of every collected string, the first error returned.
decodeCertHashes(certHashesStr) ==
    LET n == Len(certHashesStr)
        mb == [i \in 1..n |-> multibaseDecode(certHashesStr[i].v)] \o <<>>
        dh == [i \in 1..n |-> multihashDecode(mb[i].data)] \o <<>>
        bad == {i \in 1..n : mb[i].err # "nil" \/ dh[i].err # "nil"}
    IN IF bad # {}
       THEN LET i == CHOOSE k \in bad : \A j \in bad : k <= j
            IN [err |-> IF mb[i].err # "nil" THEN "multibase" ELSE "multihash",
                hashes |-> <<>>]
       ELSE [err |-> "nil", hashes |-> [i \in 1..n |-> dh[i].mh]]

\* extractCertHashes that skips the components it cannot decode and returns
\* the others with the error.
extractCertHashesPartial(addr) ==
    LET strs == SelectSeq(addr, IsCertHash)
        decodes(c) ==
            /\ multibaseDecode(c.v).err = "nil"
            /\ multihashDecode(multibaseDecode(c.v).data).err = "nil"
    IN [err |-> decodeCertHashes(strs).err,
        hashes |-> decodeCertHashes(SelectSeq(strs, decodes)).hashes]

\* extractCertHashes that stops collecting after the first certhash component.
extractCertHashesFirst(addr) ==
    LET all == SelectSeq(addr, IsCertHash)
    IN decodeCertHashes(IF all = <<>> THEN all ELSE <<all[1]>>)

\* func extractCertHashes(addr ma.Multiaddr) ([]multihash.DecodedMultihash, error)
extractCertHashes(addr) == decodeCertHashes(SelectSeq(addr, IsCertHash))

\* func addrComponentForCert(hash []byte) (ma.Multiaddr, error)
addrComponentForCert(hash) ==
    <<Comp("certhash", multibaseEncode(Base58BTC, multihashEncode(hash, SHA2_256)))>>

\* stripCertHashes(addr) of the tests: while the address holds a certhash
\* component, addr, _ = ma.SplitLast(addr) drops its last component.
RECURSIVE stripCertHashes(_)
stripCertHashes(addr) ==
    IF ~HasProtocol(addr, "certhash") THEN addr
    ELSE stripCertHashes(SubSeq(addr, 1, Len(addr) - 1))

\* manet.DialArgs(addr): the network and the endpoint the first two
\* components of the address name.
DialArgs(addr) == [net |-> addr[2].p, ip |-> addr[1].v, port |-> addr[2].v[1]]

\* A connection that reports the address it was dialled with as its remote
\* address.
remoteMultiaddrDialled(raddr) == raddr

\* The remote address of the connection a dial to raddr establishes:
\* toWebtransportMultiaddr(sess.RemoteAddr()), the session's remote endpoint
\* being the one raddr resolved to.
remoteMultiaddr(raddr) == toWebtransportMultiaddr(DialArgs(raddr)).addr

-----------------------------------------------------------------------------
(* The certificate manager, the listener's address and the dialer          *)

\* Certificates are numbered: rotation g leaves g current and g + 1 next.
StaticCert == MaxRotations + 2
ForeignCert == MaxRotations + 3
\* sha256.Sum256(cert.Raw)
Sha256(cert) == <<cert % 4, cert \div 4>>

\* certManager: the hashes to advertise, none under a static TLS configuration.
AdvertisedHashes ==
    IF staticTLS THEN <<>> ELSE <<Sha256(gen), Sha256(gen + 1)>>

\* certManager.AddrComponent()
AddrComponent ==
    IF AdvertisedHashes = <<>> THEN <<>>
    ELSE Encapsulate(addrComponentForCert(AdvertisedHashes[1]),
                     addrComponentForCert(AdvertisedHashes[2]))

\* certManager.GetConfig(): the certificates the server presents now.
ServerCerts == IF staticTLS THEN {StaticCert} ELSE {gen}

\* Certificate c is valid from the rotation that generates it as next until
\* CertLifetime periods later: its window overlaps the remaining validity of
\* the certificate before it by one full rotation period.
CertLifetime == 2
Valid(c, t) == c <= t /\ t < c + CertLifetime

\* A rotation that drops both certificates and generates two new ones.
RotateNoOverlap ==
    /\ ~staticTLS
    /\ gen < MaxRotations
    /\ gen' = gen + 2
    /\ now' = gen + 1
    /\ UNCHANGED <<staticTLS, clientTrust, lmultiaddr, dialRes, seen, probe>>
    /\ UNCHANGED pipelineVars

\* The certificate manager's timer fires at the end of the period and
\* replaces the certificates in one step: next becomes current, a new next
\* is generated.
Rotate ==
    /\ ~staticTLS
    /\ gen < MaxRotations
    /\ gen' = gen + 1
    /\ now' = gen + 1
    /\ UNCHANGED <<staticTLS, clientTrust, lmultiaddr, dialRes, seen, probe>>
    /\ UNCHANGED pipelineVars

\* Time passes up to the end of the current rotation period.
Tick ==
    /\ now < gen + 1
    /\ now' = now + 1
    /\ UNCHANGED <<staticTLS, clientTrust, gen, lmultiaddr, dialRes, seen, probe>>
    /\ UNCHANGED pipelineVars

\* The port the socket is bound to: port 0 asks for a free one.
BoundPort(l, port) == IF port = 0 THEN 4000 + l ELSE port

ListenPorts == {0, 1234}

\* udpConn.LocalAddr() of listener l after net.ListenUDP on 127.0.0.1:port
LocalAddr(l, port) == [net |-> "udp", ip |-> <<127, 0, 0, 1>>, port |-> BoundPort(l, port)]

\* The address the tests listen on: /ip4/127.0.0.1/udp/<port>/quic/webtransport
ListenAddr(port) ==
    Encapsulate(<<Comp("ip4", <<127, 0, 0, 1>>), Comp("udp", <<port>>)>>, webtransportMA)

\* transport.Listen(laddr) and newListener(laddr, ...): bind the socket, l.multiaddr =
\* toWebtransportMultiaddr(udpConn.LocalAddr()).
Listen(l, port) ==
    /\ lmultiaddr[l] = <<>>
    /\ listenCheck(ListenAddr(port)) = "nil"
    /\ LET res == toWebtransportMultiaddr(LocalAddr(l, port))
       IN /\ res.err = "nil"
          /\ \A k \in Listeners : lmultiaddr[k] # res.addr
          /\ lmultiaddr' = [lmultiaddr EXCEPT ![l] = res.addr]
    /\ UNCHANGED <<staticTLS, clientTrust, gen, dialRes, now, seen, probe>>
    /\ UNCHANGED pipelineVars

\* Multiaddr() with the hash components as they were when the listener was
\* created.
MultiaddrCached(l) ==
    Encapsulate(lmultiaddr[l],
                IF staticTLS THEN <<>>
                ELSE Encapsulate(addrComponentForCert(Sha256(0)),
                                 addrComponentForCert(Sha256(1))))

\* func (l *listener) Multiaddr() ma.Multiaddr
Multiaddr(l) == Encapsulate(lmultiaddr[l], AddrComponent)

\* The certificates a dialler may hold a hash of: the server's current and
\* next ones, the one before the last rotation, the static one, and one the
\* server never had.
KnownCerts ==
    {gen, gen + 1, StaticCert, ForeignCert} \cup (IF gen > 0 THEN {gen - 1} ELSE {})

\* A certhash component as a dialler gets it: the SHA2-256 hash of a
\* certificate in base58btc (addrComponentForCert, getCerthashComponent), or
\* a KECCAK-224 multihash in base32hex (randomMultihash of the tests).
HashChoices ==
    [cert : KnownCerts, enc : {"sha256"}] \cup [cert : {ForeignCert}, enc : {"keccak"}]

HashComponent(w) ==
    IF w.enc = "sha256" THEN addrComponentForCert(Sha256(w.cert))
    ELSE <<Comp("certhash",
                multibaseEncode(Base32hex, multihashEncode(Sha256(w.cert), KECCAK_224)))>>

RECURSIVE HashComponents(_)
HashComponents(want) ==
    IF want = <<>> THEN <<>>
    ELSE Encapsulate(HashComponent(Head(want)), HashComponents(Tail(want)))

WantChoices == UNION {[1..n -> HashChoices] : n \in 0..MaxHashes}

errCertHashNotFound == "cert hash not found"

\* The dialer's certificate verification: with hashes in the address, some
\* presented certificate must hash to one of them; without, the chain must
\* verify against the trust store.
verifyCerts(certHashes, presented) ==
    IF certHashes.err # "nil" THEN certHashes.err
    ELSE IF certHashes.hashes # <<>>
    THEN IF \E c \in presented : \E i \in 1..Len(certHashes.hashes) :
                /\ certHashes.hashes[i].code = SHA2_256
                /\ certHashes.hashes[i].digest = Sha256(c)
         THEN "nil" ELSE errCertHashNotFound
    ELSE IF staticTLS /\ clientTrust THEN "nil"
    ELSE "certificate signed by unknown authority"

\* The errors of the mocked resource manager, of a rejecting gater and of
\* an identity handshake with another peer than the expected one.
errDenied == "denied"
errGated == "secured connection gated"
errPeerMismatch == "peer id mismatch"

\* Resource accounting with a SetPeer failure that forgets scope.Done().
openScopeLeak(pol) ==
    IF pol.rcmgr = "open" THEN [trace |-> <<"OpenConnection">>, err |-> errDenied]
    ELSE IF pol.rcmgr = "setpeer"
    THEN [trace |-> <<"OpenConnection", "SetPeer">>, err |-> errDenied]
    ELSE [trace |-> <<"OpenConnection", "SetPeer">>, err |-> "nil"]

\* Resource accounting, before any network attempt: rcmgr.OpenConnection
\* (outbound), then scope.SetPeer(p); a SetPeer failure releases the scope.
openScope(pol) ==
    IF pol.rcmgr = "open" THEN [trace |-> <<"OpenConnection">>, err |-> errDenied]
    ELSE IF pol.rcmgr = "setpeer"
    THEN [trace |-> <<"OpenConnection", "SetPeer", "Done">>, err |-> errDenied]
    ELSE [trace |-> <<"OpenConnection", "SetPeer">>, err |-> "nil"]

\* Securing the session with the gater asked before the identity handshake.
secureGateFirst(pol) ==
    IF pol.gater = "reject"
    THEN [trace |-> <<"InterceptSecured", "Close", "Done">>, err |-> errGated]
    ELSE IF pol.peer = "mismatch"
    THEN [trace |-> <<"InterceptSecured", "noise", "Close", "Done">>, err |-> errPeerMismatch]
    ELSE [trace |-> <<"InterceptSecured", "noise">>, err |-> "nil"]

\* Securing the established session: the identity handshake with the
\* expected peer, then gater.InterceptSecured(outbound, p, conn); a failure
\* closes the session and releases the scope.
secure(pol) ==
    IF pol.peer = "mismatch"
    THEN [trace |-> <<"noise", "Close", "Done">>, err |-> errPeerMismatch]
    ELSE IF pol.gater = "reject"
    THEN [trace |-> <<"noise", "InterceptSecured", "Close", "Done">>, err |-> errGated]
    ELSE [trace |-> <<"noise", "InterceptSecured">>, err |-> "nil"]

\* The calls one Dial makes, in order, and its error: resource accounting
\* first, then the network attempt with the TLS verifier, then securing the
\* session.
dial(pol, certHashes, presented) ==
    IF certHashes.err # "nil" THEN [trace |-> <<>>, err |-> certHashes.err]
    ELSE LET scope == openScope(pol)
             verr == verifyCerts(certHashes, presented)
             secured == secure(pol)
         IN IF scope.err # "nil" THEN scope
            ELSE IF verr # "nil"
            THEN [trace |-> scope.trace \o <<"connect", "Done">>, err |-> verr]
            ELSE [trace |-> scope.trace \o <<"connect", "tls">> \o secured.trace,
                  err |-> secured.err]

\* The certhash components the certificate manager advertises, as a dialler
\* that read the listener's address holds them.
AdvertisedWant ==
    [i \in 1..Len(AdvertisedHashes) |-> [cert |-> gen + i - 1, enc |-> "sha256"]]

\* Dial(ctx, addr, p) to the address of listener l with the certhash
\* components `want` appended to the advertised ones (keep) or in their
\* place, the collaborators answering as pol says.
Dial(l, keep, want, pol) ==
    /\ lmultiaddr[l] # <<>>
    /\ LET addr == Encapsulate(IF keep THEN Multiaddr(l) ELSE stripCertHashes(Multiaddr(l)),
                               HashComponents(want))
           res == dial(pol, extractCertHashes(addr), ServerCerts)
       IN dialRes' = [dialed |-> TRUE, ln |-> l, addr |-> addr,
                      secured |-> IF \E i \in 1..Len(res.trace) :
                                        res.trace[i] = "InterceptSecured"
                                  THEN remoteMultiaddr(addr) ELSE <<>>,
                      want |-> IF keep THEN AdvertisedWant \o want ELSE want,
                      presented |-> ServerCerts, err |-> res.err,
                      conn |-> res.err = "nil", pol |-> pol, trace |-> res.trace]
    /\ UNCHANGED <<staticTLS, clientTrust, gen, lmultiaddr, now, seen, probe>>
    /\ UNCHANGED pipelineVars

\* Some dial against collaborators answering as one of pols. Dials do not
\* affect one another: a behaviour follows one.
DialOnce(pols) ==
    /\ ~dialRes.dialed
    /\ \E l \in Listeners, keep \in BOOLEAN, want \in WantChoices, pol \in pols :
        Dial(l, keep, want, pol)

AddrInit ==
    /\ InitPipeline("varied")
    /\ \E static \in BOOLEAN, trust \in BOOLEAN : InitAddr(static, trust)

AddrNext ==
    \/ Rotate
    \/ \E l \in Listeners, port \in ListenPorts : Listen(l, port)
    \/ DialOnce({NullPolicy})

AddrSpec == AddrInit /\ [][AddrNext]_vars

\* A caller reads ln.Multiaddr() of listener l.
Read(l) ==
    /\ lmultiaddr[l] # <<>>
    /\ seen' = [read |-> TRUE, addr |-> Multiaddr(l), at |-> now]
    /\ UNCHANGED <<staticTLS, clientTrust, gen, lmultiaddr, dialRes, now, probe>>
    /\ UNCHANGED pipelineVars

\* The certificate manager over time, with listeners whose address is read.
CertNext ==
    \/ Tick
    \/ Rotate
    \/ \E l \in Listeners, port \in ListenPorts : Listen(l, port)
    \/ \E l \in Listeners : Read(l)

CertSpec == AddrInit /\ [][CertNext]_vars

\* The protocols of the components of the addresses put to CanDial and
\* Listen.
Protocols == {"ip4", "ip6", "udp", "tcp", "quic", "webtransport", "certhash"}

\* An address of the given protocols followed by k certhash components.
AddrOf(protos, k) ==
    [i \in 1..(Len(protos) + k) |->
        Comp(IF i <= Len(protos) THEN protos[i] ELSE "certhash", <<>>)]

\* A transport and an address somebody wants to dial or listen on.
CodecInit ==
    /\ InitPipeline("varied")
    /\ InitCert(FALSE, FALSE)
    /\ \E n \in 0..MaxComponents, k \in 0..MaxHashes :
        \E protos \in [1..n -> Protocols] :
            probe = [NoProbe EXCEPT !.addr = AddrOf(protos, k)]

\* tr.CanDial(addr)
CallCanDial ==
    /\ probe.op = "none"
    /\ probe' = [probe EXCEPT !.op = "CanDial", !.ok = CanDial(probe.addr)]
    /\ UNCHANGED <<staticTLS, clientTrust, gen, lmultiaddr, dialRes, now, seen>>
    /\ UNCHANGED pipelineVars

\* tr.Listen(addr), up to its address check
CallListen ==
    /\ probe.op = "none"
    /\ probe' = [probe EXCEPT !.op = "Listen", !.ok = (listenCheck(probe.addr) = "nil")]
    /\ UNCHANGED <<staticTLS, clientTrust, gen, lmultiaddr, dialRes, now, seen>>
    /\ UNCHANGED pipelineVars

CodecNext ==
    \/ CallCanDial
    \/ CallListen

CodecSpec == CodecInit /\ [][CodecNext]_vars

\* The certificate hashes an address can hold well-formed: a digest, the
\* multihash code and the multibase encoding.
GoodHashes ==
    {[digest |-> Sha256(0), code |-> SHA2_256, base |-> Base58BTC],
     [digest |-> Sha256(1), code |-> SHA2_256, base |-> Base58BTC],
     [digest |-> Sha256(ForeignCert), code |-> KECCAK_224, base |-> Base32hex]}

\* multibase.Encode(base, multihash.Encode(digest, code)) of the tests
\* (getCerthashComponent, randomMultihash).
Encoded(g) == multibaseEncode(g.base, multihashEncode(g.digest, g.code))

GoodValues == {Encoded(g) : g \in GoodHashes}

\* Malformed values: the empty string, an unknown multibase prefix ('?'), a
\* character outside the alphabet ('0' in base58btc), a multihash without
\* its length, a multihash whose length disagrees with its digest.
BadValues ==
    {<<>>, <<63, 49>>, <<Base58BTC, 48, 49>>,
     multibaseEncode(Base58BTC, <<SHA2_256>>),
     multibaseEncode(Base58BTC, <<SHA2_256, 3, 1, 2>>)}

\* The components of the addresses put to extractCertHashes.
ExtractComponents ==
    {Comp("ip4", <<127, 0, 0, 1>>), Comp("quic", <<>>)}
    \cup {Comp("certhash", v) : v \in GoodValues \cup BadValues}

\* A transport and an address whose certificate hashes somebody wants.
ExtractInit ==
    /\ InitPipeline("varied")
    /\ InitCert(FALSE, FALSE)
    /\ \E n \in 0..MaxExtract :
        \E addr \in [1..n -> ExtractComponents] :
            probe = [NoProbe EXCEPT !.addr = addr \o <<>>]

\* extractCertHashes(addr)
CallExtractCertHashes ==
    /\ probe.op = "none"
    /\ probe' = [probe EXCEPT !.op = "extractCertHashes",
                              !.res = extractCertHashes(probe.addr)]
    /\ UNCHANGED <<staticTLS, clientTrust, gen, lmultiaddr, dialRes, now, seen>>
    /\ UNCHANGED pipelineVars

ExtractNext == CallExtractCertHashes

ExtractSpec == ExtractInit /\ [][ExtractNext]_vars

\* A transport whose listeners all listen on a port of their own (/udp/0).
DialInit ==
    /\ InitPipeline("varied")
    /\ \E static \in BOOLEAN, trust \in BOOLEAN :
        /\ staticTLS = static
        /\ clientTrust = trust
    /\ gen = 0
    /\ now = 0
    /\ lmultiaddr = [l \in Listeners |-> toWebtransportMultiaddr(LocalAddr(l, 0)).addr]
    /\ dialRes = NoDial
    /\ seen = NoSeen
    /\ probe = NoProbe

\* The dialer with a resource manager and a connection gater configured,
\* against a listening transport.
DialNext ==
    \/ Rotate
    \/ DialOnce(DialPolicies)

DialSpec == DialInit /\ [][DialNext]_vars

-----------------------------------------------------------------------------

Next ==
    \/ Upgrade
    \/ UpgradeFail
    \/ \E s \in Sessions : HandlerReturn(s)
    \/ AcceptCall
    \/ AcceptCheckCtx
    \/ AcceptPop
    \/ AcceptRecv
    \/ AcceptCtxDone
    \/ AcceptPark
    \/ AcceptWake
    \/ \E s \in Sessions : HandshakeOk(s)
    \/ \E s \in Sessions : HandshakeFail(s)
    \/ CloseCancel
    \/ CloseServer
    \/ CloseWait
    \/ ServeReturn

Spec == Init /\ [][Next]_vars

\* Goroutines that can take a step are scheduled: the woken Accept() runs.
Fairness == WF_vars(AcceptWake)

FairSpec == Spec /\ Fairness

\* The goroutine that called Accept() keeps running while it has a step to
\* take; handshakes and remote peers may stall for ever.
AcceptStep ==
    \/ AcceptCheckCtx
    \/ AcceptPop
    \/ AcceptRecv
    \/ AcceptCtxDone
    \/ AcceptPark
    \/ AcceptWake

\* A listener under the varied load, where handshakes overlap freely.
LiveInit ==
    /\ InitPipeline("varied")
    /\ InitAddr(FALSE, FALSE)

LiveSpec == LiveInit /\ [][Next]_vars /\ WF_vars(AcceptStep)

\* The listener with the timers of the handshake goroutines running: a timer
\* that is armed expires.
TimeoutNext ==
    \/ Next
    \/ \E s \in Sessions : HandshakeTimeout(s)

TimeoutSpec ==
    LiveInit /\ [][TimeoutNext]_vars /\ WF_vars(\E s \in Sessions : HandshakeTimeout(s))

-----------------------------------------------------------------------------
(* What a session is, in the words of the claims                           *)

\* The identity handshake of s completed.
Authenticated(s) == peer[s] # "none"

\* The handshake goroutine of s ended on the error path.
Failed(s) == task[s] = "done" /\ peer[s] = "none"

\* The resource manager admits the peer of s (OpenConnection, SetPeer).
RcmgrAdmits(s) == peer[s] # "denied"

\* The connection gater admits the peer of s (InterceptSecured).
GaterAdmits(s) == peer[s] # "gated"

\* s passed the transport handshake and its identity handshake is pending:
\* its handler waits to enqueue it, it sits in l.queue, Accept() holds it, or
\* a goroutine of Accept() handshakes it.
HalfOpen == {s \in Sessions :
                sess[s] = "open" /\ peer[s] = "none" /\ task[s] \in {"none", "hs"}}

\* Sessions Accept() took from l.queue.
Popped == {s \in Sessions : task[s] # "none"}

\* Nothing runs any more: Close() and Accept() returned, no handshake is in
\* flight.
Quiescent ==
    /\ closePc = "done"
    /\ acceptPc = "idle"
    /\ \A s \in Sessions : task[s] # "hs"

-----------------------------------------------------------------------------
(* Claims                                                                  *)

\* C1: every connection Accept() returned belongs to a session whose identity
\* handshake completed and which the resource manager and the connection
\* gater both admitted.
C1_OnlyAdmittedReturned ==
    \A s \in accepted : Authenticated(s) /\ RcmgrAdmits(s) /\ GaterAdmits(s)

\* C2: the raw-accept callback never waits for space in the pending-session
\* queue: no handler is blocked in the enqueue.
C2_CallbackNeverBlocks == lblocked = <<>>

\* C3: at most queueLen sessions are half-open at any time.
C3_HalfOpenBounded == Cardinality(HalfOpen) <= queueLen

\* C4: a session whose handshake failed is closed and never returned, and the
\* only error Accept() returns is errClosed, only with l.ctx cancelled.
C4_FailuresSwallowed ==
    /\ \A s \in Sessions : Failed(s) => sess[s] = "closed" /\ s \notin accepted
    /\ acceptRet.err \in {"none", "nil", errClosed}
    /\ acceptRet.err = errClosed => ctxDone /\ acceptRet.conn = 0
    /\ acceptRet.err = "nil" => acceptRet.conn \in accepted

C4_Witness ==
    /\ \E s \in Sessions : Failed(s) /\ sess[s] = "closed"
    /\ ~ctxDone
    /\ acceptPc = "idle"
    /\ acceptRet.err = "nil"

\* C5: an Accept() call that began with l.ctx cancelled returns errClosed and
\* no connection.
C5_ClosedAfterCancel ==
    afterCancel =>
        /\ acceptRet.conn = 0
        /\ acceptPc = "idle" => acceptRet = RetErr(errClosed)

C5_Witness ==
    /\ afterCancel
    /\ acceptPc = "idle"
    /\ acceptRet = RetErr(errClosed)
    /\ lqueue # <<>>
    /\ \E k \in Calls : results[k] # <<>>

\* C6: an Accept() call parked in its select when Close() cancels l.ctx
\* eventually returns, and returns errClosed.
C6_ParkedAcceptReturnsClosed ==
    (parkedAtClose # 0 /\ parkedAtClose = call /\ acceptPc # "idle")
        ~> (parkedAtClose = call /\ acceptPc = "idle" /\ acceptRet = RetErr(errClosed))

C6_Witness ==
    /\ parkedAtClose # 0
    /\ parkedAtClose = call
    /\ acceptPc = "idle"
    /\ acceptRet = RetErr(errClosed)

\* C7: Close() has returned only when l.ctx is cancelled, the server closed and
\* the serving goroutine finished (socket closed, then serverClosed signalled),
\* the server being closed only after the cancellation; it returns the error
\* of l.server.Close().
C7_CloseOrder ==
    /\ ~serverUp => ctxDone
    /\ closePc \in {"waiting", "done"} <=> ~serverUp
    /\ serverClosed => ~udpOpen /\ servePc = "returned"
    /\ closePc = "done" =>
        /\ ctxDone /\ ~serverUp /\ serverClosed
        /\ closeRet = closeErr /\ closeRet \in {"nil", "err"}
    /\ closePc # "done" => closeRet = "none"

C7_Witness == closePc = "done" /\ closeRet = "err" /\ ~udpOpen

\* C8: once Close() is through and nothing runs any more, every session
\* Accept() took from the queue is closed or was returned.
C8_ReleasedAfterClose ==
    Quiescent => \A s \in Popped : sess[s] = "closed" \/ s \in accepted

\* The digests of the certhash components of an address, decoded.
Digests(addr) ==
    LET hs == extractCertHashes(addr).hashes
    IN [i \in 1..Len(hs) |-> hs[i].digest]

Listening == {l \in Listeners : lmultiaddr[l] # <<>>}

\* C9: the listener's Multiaddr() is its base address followed by the
\* certificate manager's current hash components: two under rotation, the
\* same for all listeners of the transport, none with a static TLS
\* configuration.
C9_MultiaddrCurrentHashes ==
    \A l \in Listening :
        /\ stripCertHashes(Multiaddr(l)) = lmultiaddr[l]
        /\ SubSeq(Multiaddr(l), 1, Len(lmultiaddr[l])) = lmultiaddr[l]
        /\ extractCertHashes(Multiaddr(l)).err = "nil"
        /\ Digests(Multiaddr(l)) = AdvertisedHashes
        /\ Len(SelectSeq(Multiaddr(l), IsCertHash)) = IF staticTLS THEN 0 ELSE 2
        /\ ~staticTLS => Digests(Multiaddr(l)) = <<Sha256(gen), Sha256(gen + 1)>>
        /\ \A k \in Listening :
            SelectSeq(Multiaddr(k), IsCertHash) = SelectSeq(Multiaddr(l), IsCertHash)

C9_Witness ==
    /\ Listening = Listeners
    /\ gen > 0
    /\ Digests(Multiaddr(1)) = <<Sha256(gen), Sha256(gen + 1)>>
    /\ Multiaddr(1) # Multiaddr(2)

\* The dialled address carries certhash components and none is the SHA2-256
\* hash of a certificate the server presented.
AllHashesWrong(d) ==
    /\ d.dialed
    /\ d.want # <<>>
    /\ \A i \in 1..Len(d.want) : d.want[i].enc # "sha256" \/ d.want[i].cert \notin d.presented

\* C10: a Dial to an address whose certhash components all differ from the
\* hashes of the certificates the server presents fails with "cert hash not
\* found" and yields no connection, with rotating certificates and with a
\* static TLS configuration.
C10_WrongHashRejected ==
    AllHashesWrong(dialRes) => dialRes.err = errCertHashNotFound /\ ~dialRes.conn

C10_Witness ==
    /\ AllHashesWrong(dialRes)
    /\ staticTLS
    /\ clientTrust
    /\ Len(dialRes.want) = 2
    /\ dialRes.err = errCertHashNotFound

\* The dial reached the server with the expected peer and admitting
\* collaborators.
Admitted(d) == d.dialed /\ d.pol = NullPolicy

\* The dialled address carries the SHA2-256 hash of a certificate the server
\* presented.
HasRightHash(d) ==
    \E i \in 1..Len(d.want) : d.want[i].enc = "sha256" /\ d.want[i].cert \in d.presented

HasDecoy(d) ==
    \E i \in 1..Len(d.want) : d.want[i].enc # "sha256" \/ d.want[i].cert \notin d.presented

AdvertisedPlusWrong(d) ==
    /\ Admitted(d)
    /\ Len(d.want) = 3
    /\ d.want[1].cert \in d.presented
    /\ d.want[1].enc = "sha256" /\ d.want[2].enc = "sha256"
    /\ d.want[2].cert = d.want[1].cert + 1
    /\ d.want[3].cert \notin d.presented \cup {d.want[2].cert}

Count(trace, e) == Cardinality({i \in 1..Len(trace) : trace[i] = e})
First(trace, e) ==
    IF Count(trace, e) = 0 THEN 0
    ELSE CHOOSE i \in 1..Len(trace) : trace[i] = e /\ \A j \in 1..(i - 1) : trace[j] # e

\* C13: when the resource manager denies an outbound dial (OpenConnection
\* fails, or SetPeer on the opened scope fails), Dial fails with the resource
\* manager's error, makes no network attempt, and releases the scope it
\* opened with Done() exactly once.
C13_DeniedDialAborts ==
    (dialRes.dialed /\ dialRes.pol.rcmgr # "ok") =>
        /\ dialRes.err = errDenied
        /\ ~dialRes.conn
        /\ Count(dialRes.trace, "connect") = 0
        /\ Count(dialRes.trace, "OpenConnection") = 1
        /\ Count(dialRes.trace, "SetPeer") = (IF dialRes.pol.rcmgr = "setpeer" THEN 1 ELSE 0)
        /\ Count(dialRes.trace, "Done") = (IF dialRes.pol.rcmgr = "setpeer" THEN 1 ELSE 0)

C13_Witness ==
    /\ dialRes.dialed
    /\ dialRes.pol.rcmgr = "setpeer"
    /\ HasRightHash(dialRes)
    /\ dialRes.err = errDenied
    /\ dialRes.trace = <<"OpenConnection", "SetPeer", "Done">>

\* C14: on the dial path InterceptSecured is consulted only after the
\* transport handshake and the identity handshake have both succeeded, every
\* connection Dial returns has passed it, and when it rejects the session is
\* closed and Dial fails with the gating error.
C14_GatedAfterHandshakes ==
    LET tr == dialRes.trace
        at == First(tr, "InterceptSecured")
    IN dialRes.dialed =>
        /\ at # 0 =>
            /\ Count(tr, "InterceptSecured") = 1
            /\ First(tr, "tls") # 0 /\ First(tr, "tls") < at
            /\ First(tr, "noise") # 0 /\ First(tr, "noise") < at
            /\ dialRes.pol.peer = "match"
            /\ dialRes.pol.rcmgr = "ok"
        /\ dialRes.conn => at # 0
        /\ (at # 0 /\ dialRes.pol.gater = "reject") =>
            /\ dialRes.err = errGated
            /\ ~dialRes.conn
            /\ First(tr, "Close") > at
            /\ Count(tr, "Close") = 1

C14_Witness ==
    /\ dialRes.dialed
    /\ dialRes.pol = [NullPolicy EXCEPT !.gater = "reject"]
    /\ dialRes.err = errGated
    /\ First(dialRes.trace, "InterceptSecured") = 6

\* C15: a session whose peer the resource manager denies (OpenConnection or
\* SetPeer fails) is closed by the listener once its handshake goroutine is
\* through, and Accept() never returns it.
C15_DeniedInboundDropped ==
    \A s \in Sessions :
        (~RcmgrAdmits(s) /\ task[s] = "done") => (sess[s] = "closed" /\ s \notin accepted)

\* C19: l.queue never holds more than queueLen sessions.
C19_QueueBounded == Len(lqueue) <= queueLen

C19_Witness ==
    /\ Len(lqueue) = queueLen
    /\ lblocked # <<>>
    /\ nSess > queueLen

\* C20: the handler of a session that was upgraded and enqueued has returned
\* only if the session's context is done; a handler returns without that
\* only when the upgrade failed, and then no session was enqueued.
C20_HandlerWaitsForSession ==
    \A s \in returned :
        /\ sess[s] \in {"closed", "failed"}
        /\ sess[s] = "failed" => task[s] = "none" /\ \A i \in 1..Len(lqueue) : lqueue[i] # s

C20_Witness ==
    /\ \E s \in returned : sess[s] = "closed"
    /\ \E s \in accepted : sess[s] = "open" /\ s \notin returned

\* The certificates that exist at some time of a behaviour.
Generated == 0..(MaxRotations + 1)

\* Some of the hashes is the hash of a certificate valid at time t.
SomeValid(hashes, t) ==
    \E i \in 1..Len(hashes) : \E c \in Generated : Valid(c, t) /\ hashes[i] = Sha256(c)

BaseThenHashes(addr) ==
    /\ Len(addr) >= 4
    /\ addr[1].p \in {"ip4", "ip6"}
    /\ <<addr[2].p, addr[3].p, addr[4].p>> = <<"udp", "quic", "webtransport">>
    /\ \A i \in 5..Len(addr) : addr[i].p = "certhash"

HasHash(addr) == \E i \in 1..Len(addr) : addr[i].p = "certhash"

\* C16: an address is dialable iff it is ip4-or-ip6 / udp / quic /
\* webtransport followed by zero or more certhash components, and Listen
\* accepts it iff it is that sequence without any certhash component.
C16_StructuralValidity ==
    /\ probe.op = "CanDial" => (probe.ok <=> BaseThenHashes(probe.addr))
    /\ probe.op = "Listen" =>
        (probe.ok <=> (BaseThenHashes(probe.addr) /\ ~HasHash(probe.addr)))

C16_Witness ==
    /\ probe.op = "Listen"
    /\ ~probe.ok
    /\ BaseThenHashes(probe.addr)
    /\ Len(probe.addr) = 5
    /\ probe.addr[1].p = "ip6"

\* The handshake of t, launched by the Accept() call in progress, succeeded
\* and its connection waits for that call.
Pending(t) ==
    /\ acceptPc # "idle"
    /\ taskCall[t] = call
    /\ peer[t] # "none"
    /\ t \notin accepted

\* Another session of the same Accept() call is still in its handshake or
\* failed it.
OtherStuck(t) ==
    \E s \in Sessions :
        s # t /\ taskCall[s] = taskCall[t] /\ (task[s] = "hs" \/ Failed(s))

\* C18: while Accept() is in progress and l.ctx is not cancelled, the queued
\* sessions get their handshakes launched whatever the handshakes before
\* them do, and once a handshake of the call has succeeded the call returns
\* a connection, without waiting for handshakes that stall or failed.
C18_FailuresDoNotStopAccept ==
    /\ (lqueue # <<>> /\ acceptPc # "idle")
           ~> (lqueue = <<>> \/ acceptPc = "idle" \/ ctxDone)
    /\ (\E t \in Sessions : Pending(t) /\ OtherStuck(t))
           ~> ((acceptPc = "idle" /\ acceptRet.err = "nil" /\ acceptRet.conn \in accepted)
               \/ ctxDone)

C18_Witness ==
    /\ acceptPc = "idle"
    /\ ~ctxDone
    /\ \E t \in accepted :
        /\ acceptRet = RetConn(t)
        /\ \E s \in Sessions : s < t /\ taskCall[s] = taskCall[t] /\ task[s] = "hs"

\* C21: handshake goroutines never stay in their handshakes for ever: when
\* the remote peer does not answer, the goroutine's own deadline ends it,
\* whatever the other goroutines do, and a goroutine that ended without an
\* authenticated peer ended on the error path with its session closed.
C21_StalledHandshakeEnds ==
    /\ (\E s \in Sessions : task[s] = "hs") ~> (\A s \in Sessions : task[s] # "hs")
    /\ [](\A s \in Sessions :
            task[s] \in {"done", "blocked"} =>
                Authenticated(s) \/ (Failed(s) /\ sess[s] = "closed"))

\* The goroutine of s ended on the error path with l.ctx alive, and another
\* goroutine launched after it by the same call delivered its
\* connection.
C21_Witness ==
    /\ ~ctxDone
    /\ \E s, t \in Sessions :
        /\ s < t
        /\ taskCall[s] = taskCall[t]
        /\ Failed(s) /\ sess[s] = "closed"
        /\ Authenticated(t) /\ t \in accepted

HashAt == {i \in 1..Len(probe.addr) : IsCertHash(probe.addr[i])}
Rank(i) == Cardinality({j \in HashAt : j <= i})

\* The hash a well-formed value was encoded from.
Expected(v) ==
    LET g == CHOOSE h \in GoodHashes : Encoded(h) = v
    IN [code |-> g.code, length |-> Len(g.digest), digest |-> g.digest]

\* C23: extractCertHashes returns the decoded hash of every certhash
\* component, in the order of the components and whatever other components
\* the address holds, with no error; unless one of them is malformed: then it
\* returns an error and no hash.
C23_ExtractAllOrNothing ==
    probe.op = "extractCertHashes" =>
        IF \E i \in HashAt : probe.addr[i].v \in BadValues
        THEN probe.res.err # "nil" /\ probe.res.hashes = <<>>
        ELSE /\ probe.res.err = "nil"
             /\ Len(probe.res.hashes) = Cardinality(HashAt)
             /\ \A i \in HashAt : probe.res.hashes[Rank(i)] = Expected(probe.addr[i].v)

\* Two different well-formed hashes with another component between them,
\* returned in their order.
C23_Witness ==
    /\ probe.op = "extractCertHashes"
    /\ HashAt = {1, 3}
    /\ probe.addr[1].v \in GoodValues
    /\ probe.addr[3].v \in GoodValues
    /\ probe.addr[1].v # probe.addr[3].v
    /\ probe.res.err = "nil"
    /\ probe.res.hashes = <<Expected(probe.addr[1].v), Expected(probe.addr[3].v)>>

\* Accept() call k has returned: its results channel `queue` is out of every
\* goroutine's reach but the senders', and nothing receives from it again.
CallReturned(k) == k # 0 /\ (k < call \/ (k = call /\ acceptPc = "idle"))

\* The connection of s sits in the buffer of the results channel of call k.
InResults(s, k) == \E i \in 1..Len(results[k]) : results[k][i] = s

\* The handshake of s succeeded and its connection sits in the results
\* channel of a call that has returned, with the listener open: no call
\* returns it and nothing closes it.
Stranded(s) ==
    /\ Authenticated(s)
    /\ taskCall[s] # 0
    /\ CallReturned(taskCall[s])
    /\ InResults(s, taskCall[s])
    /\ sess[s] = "open"
    /\ s \notin accepted
    /\ ~ctxDone

\* C24: no session Accept() took from the queue and authenticated is left
\* where it can neither be returned by an Accept() call nor be closed.
C24_NoSessionLost == \A s \in Sessions : ~Stranded(s)

\* The goroutine of s is blocked in `queue <- conn` on the results channel
\* of a call that has returned: no receive will ever complete its send.
BlockedForEver(s) ==
    /\ task[s] = "blocked"
    /\ CallReturned(taskCall[s])

\* C25: no handshake goroutine whose handshake succeeded is left blocked in
\* the send of its connection to the results channel.
C25_DeliveryNeverBlocksForEver == \A s \in Sessions : ~BlockedForEver(s)

=============================================================================
